---- MODULE Spec2Model ----
(***************************************************************************)
(* A model of video-chapter-splitter: src/src/video_chapter_splitter.py    *)
(* (class VideoChapterSplitter and main) and src/src/utils.py.             *)
(*                                                                         *)
(* Text is a sequence of one-character strings.  A float number of seconds *)
(* is an integer number of ticks, TicksPerSecond ticks to the second, so a *)
(* timestamp with up to four fractional digits and a progress offset that  *)
(* is a multiple of 100 microseconds are represented exactly.              *)
(***************************************************************************)
EXTENDS Integers, Sequences, FiniteSets, TLC

TicksPerSecond == 10 * 1000
MicrosPerTick == 1000000 \div TicksPerSecond

(***************************************************************************)
(* Bounds of the model.                                                    *)
(***************************************************************************)
\* lines of an annotation file
MaxLines == 2
\* output lines one child process writes
MaxOutput == 2

(***************************************************************************)
(* Text helpers: the str methods the program uses.                         *)
(***************************************************************************)
Digits == <<"0", "1", "2", "3", "4", "5", "6", "7", "8", "9">>

IsDigitChar(c) == \E d \in 1..10 : Digits[d] = c

DigitVal(c) == (CHOOSE d \in 1..10 : Digits[d] = c) - 1

\* str.isdigit(): non-empty and every character a digit
isdigit(s) == Len(s) > 0 /\ \A k \in 1..Len(s) : IsDigitChar(s[k])

\* int(s) of a digit string
RECURSIVE IntOf(_)
IntOf(s) ==
    IF s = <<>> THEN 0
    ELSE IntOf(SubSeq(s, 1, Len(s) - 1)) * 10 + DigitVal(s[Len(s)])

\* str(n) of a natural number
RECURSIVE TextOf(_)
TextOf(n) ==
    IF n < 10 THEN <<Digits[n + 1]>>
    ELSE TextOf(n \div 10) \o <<Digits[(n % 10) + 1]>>

\* str.strip() for the blank character
RECURSIVE strip(_)
strip(s) ==
    IF s = <<>> THEN s
    ELSE IF s[1] = " " THEN strip(Tail(s))
    ELSE IF s[Len(s)] = " " THEN strip(SubSeq(s, 1, Len(s) - 1))
    ELSE s

\* the index of the first occurrence of character c in s at or after from, or 0
RECURSIVE IndexOf(_, _, _)
IndexOf(s, c, from) ==
    IF from > Len(s) THEN 0
    ELSE IF s[from] = c THEN from
    ELSE IndexOf(s, c, from + 1)

\* str.split(sep) for a one-character separator
RECURSIVE split(_, _)
split(s, sep) ==
    LET p == IndexOf(s, sep, 1)
    IN  IF p = 0 THEN <<s>>
        ELSE <<SubSeq(s, 1, p - 1)>> \o split(SubSeq(s, p + 1, Len(s)), sep)

\* str.split(maxsplit=1): at most two fields cut at the first run of blanks
split_maxsplit1(s) ==
    LET t == strip(s)
        p == IndexOf(t, " ", 1)
    IN  IF t = <<>> THEN <<>>
        ELSE IF p = 0 THEN <<t>>
        ELSE <<SubSeq(t, 1, p - 1), strip(SubSeq(t, p, Len(t)))>>

\* str.startswith(prefix)
startswith(s, prefix) ==
    Len(s) >= Len(prefix) /\ SubSeq(s, 1, Len(prefix)) = prefix

(***************************************************************************)
(* utils.py: time_to_seconds and seconds_to_time_str.                      *)
(***************************************************************************)
\* the ticks of a fraction's digits ".ddd": digits beyond the tick are cut
FracTicks(ds) ==
    LET d(k) == IF k <= Len(ds) THEN DigitVal(ds[k]) ELSE 0
    IN  (d(1) * TicksPerSecond) \div 10 + (d(2) * TicksPerSecond) \div 100
        + (d(3) * TicksPerSecond) \div 1000 + (d(4) * TicksPerSecond) \div 10000

\* \d+(?:\.\d+)? : the seconds group of the pattern
IsDecimal(s) ==
    LET p == IndexOf(s, ".", 1)
    IN  IF p = 0 THEN isdigit(s)
        ELSE isdigit(SubSeq(s, 1, p - 1)) /\ isdigit(SubSeq(s, p + 1, Len(s)))

\* float(s) of an unsigned decimal "ddd", "ddd.ddd", "ddd." or ".ddd", in ticks
UnsignedTicks(s) ==
    LET p == IndexOf(s, ".", 1)
    IN  IF p = 0 THEN IntOf(s) * TicksPerSecond
        ELSE IntOf(SubSeq(s, 1, p - 1)) * TicksPerSecond
             + FracTicks(SubSeq(s, p + 1, Len(s)))

\* whether float(s) accepts s: blanks around, a sign, digits with at most one
\* point and at least one digit (the alphabet of the model has no exponent)
IsFloat(s) ==
    LET t == strip(s)
        u == IF t # <<>> /\ t[1] \in {"-", "+"} THEN Tail(t) ELSE t
        p == IndexOf(u, ".", 1)
        a == IF p = 0 THEN u ELSE SubSeq(u, 1, p - 1)
        b == IF p = 0 THEN <<>> ELSE SubSeq(u, p + 1, Len(u))
    IN  /\ Len(a) + Len(b) > 0
        /\ \A k \in 1..Len(a) : IsDigitChar(a[k])
        /\ \A k \in 1..Len(b) : IsDigitChar(b[k])

\* float(s) in ticks, for s that float accepts
FloatTicks(s) ==
    LET t == strip(s)
        neg == t # <<>> /\ t[1] = "-"
        u == IF t # <<>> /\ t[1] \in {"-", "+"} THEN Tail(t) ELSE t
    IN  IF neg THEN 0 - UnsignedTicks(u) ELSE UnsignedTicks(u)

\* re.match(r'^(?:(\d+):)?(\d+):(\d+(?:\.\d+)?)$', time_str.strip())
pattern_match(time_str) ==
    LET parts == split(strip(time_str), ":")
        n == Len(parts)
    IN  /\ n \in {2, 3}
        /\ \A k \in 1..(n - 1) : isdigit(parts[k])
        /\ IsDecimal(parts[n])

\* the lenient fallback: exactly three parts that float() accepts
fallback_match(time_str) ==
    LET parts == split(strip(time_str), ":")
    IN  Len(parts) = 3 /\ \A k \in 1..3 : IsFloat(parts[k])

\* time_to_seconds raises ValueError
time_to_seconds_raises(time_str) ==
    LET parts == split(strip(time_str), ":")
        n == Len(parts)
    IN  IF ~pattern_match(time_str) THEN ~fallback_match(time_str)
        ELSE \/ IntOf(parts[n - 1]) >= 60
             \/ UnsignedTicks(parts[n]) >= 60 * TicksPerSecond

\* the value time_to_seconds returns when it does not raise, in ticks
time_to_seconds(time_str) ==
    LET parts == split(strip(time_str), ":")
        n == Len(parts)
    IN  IF ~pattern_match(time_str)
        THEN FloatTicks(parts[1]) * 3600 + FloatTicks(parts[2]) * 60
             + FloatTicks(parts[3])
        ELSE (IF n = 3 THEN IntOf(parts[1]) ELSE 0) * 3600 * TicksPerSecond
             + IntOf(parts[n - 1]) * 60 * TicksPerSecond
             + UnsignedTicks(parts[n])

\* format(n, "02d") of an integer
Pad2(n) == IF n < 0 THEN <<"-">> \o TextOf(0 - n)
           ELSE IF n < 10 THEN <<"0">> \o TextOf(n) ELSE TextOf(n)

\* format(n, "03d") of a natural number
Pad3(n) == IF n < 10 THEN <<"0", "0">> \o TextOf(n)
           ELSE IF n < 100 THEN <<"0">> \o TextOf(n) ELSE TextOf(n)

\* seconds_to_time_str for seconds >= 0 in ticks; the fractional form rounds
\* the seconds to three digits as "%06.3f" does (a half rounds up here)
seconds_to_time_str(seconds, include_ms) ==
    LET hours == seconds \div (3600 * TicksPerSecond)
        minutes == (seconds % (3600 * TicksPerSecond)) \div (60 * TicksPerSecond)
        secs == seconds % (60 * TicksPerSecond)
        ticksPerMs == TicksPerSecond \div 1000
        ms == (secs + ticksPerMs \div 2) \div ticksPerMs
    IN  IF include_ms
        THEN Pad2(hours) \o <<":">> \o Pad2(minutes) \o <<":">>
             \o Pad2(ms \div 1000) \o <<".">> \o Pad3(ms % 1000)
        ELSE Pad2(hours) \o <<":">> \o Pad2(minutes) \o <<":">>
             \o Pad2(secs \div TicksPerSecond)

\* parse_progress_output: the offset of a progress line in ticks, or NoOffset.
\* A line is its fields between the "=" signs; "out_time_ms=" is in the line
\* when a field before the last one ends with out_time_ms.
NoOffset == 0 - 1

OutTimeKey == <<"o", "u", "t", "_", "t", "i", "m", "e", "_", "m", "s">>

endswith(s, suffix) ==
    Len(s) >= Len(suffix)
    /\ SubSeq(s, Len(s) - Len(suffix) + 1, Len(s)) = suffix

parse_progress_output(line) ==
    LET fields == split(line, "=")
        time_value == strip(fields[2])
    IN  IF \E k \in 1..(Len(fields) - 1) : endswith(fields[k], OutTimeKey)
        THEN IF isdigit(time_value)
             THEN IntOf(time_value) \div MicrosPerTick
             ELSE NoOffset
        ELSE NoOffset

(***************************************************************************)
(* The annotation file: parse_chapter_file and _parse_all_chapters.        *)
(***************************************************************************)
ExclusionMarker == <<"-", "-">>

\* lines 213: the stripped non-blank lines of the file
RECURSIVE nonblank_lines(_)
nonblank_lines(file) ==
    IF file = <<>> THEN <<>>
    ELSE IF strip(Head(file)) = <<>> THEN nonblank_lines(Tail(file))
    ELSE <<strip(Head(file))>> \o nonblank_lines(Tail(file))

\* lines 219-231 of parse_chapter_file: one entry per line with two fields
RECURSIVE all_entries(_)
all_entries(lines) ==
    IF lines = <<>> THEN <<>>
    ELSE LET parts == split_maxsplit1(Head(lines))
         IN  IF Len(parts) >= 2
             THEN <<[time |-> parts[1], title |-> parts[2],
                     excluded |-> startswith(parts[2], ExclusionMarker)]>>
                  \o all_entries(Tail(lines))
             ELSE all_entries(Tail(lines))

\* A resolver that drops the excluded entries before it computes the
\* boundaries: the end of a kept entry is the start of the next kept entry.
RECURSIVE build_chapters_dropping_first(_, _, _)
build_chapters_dropping_first(entries, full_duration_str, i) ==
    LET kept == SelectSeq(entries, LAMBDA e : ~e.excluded)
    IN  IF i > Len(kept) THEN <<>>
        ELSE <<[start |-> kept[i].time,
                end |-> IF i + 1 <= Len(kept) THEN kept[i + 1].time
                        ELSE full_duration_str,
                title |-> kept[i].title]>>
             \o build_chapters_dropping_first(entries, full_duration_str, i + 1)

\* lines 234-246 of parse_chapter_file: the loop from entry i on
RECURSIVE build_chapters(_, _, _)
build_chapters(entries, full_duration_str, i) ==
    IF i > Len(entries) THEN <<>>
    ELSE LET entry == entries[i]
             end_time == IF i + 1 <= Len(entries) THEN entries[i + 1].time
                         ELSE full_duration_str
             rest == build_chapters(entries, full_duration_str, i + 1)
         IN  IF entry.excluded THEN rest
             ELSE <<[start |-> entry.time, end |-> end_time,
                     title |-> entry.title]>> \o rest

\* parse_chapter_file, given the file's lines and the duration ffprobe gave
parse_chapter_file(file, duration) ==
    build_chapters(all_entries(nonblank_lines(file)),
                   seconds_to_time_str(duration, FALSE), 1)

\* lines 451-463 of _parse_all_chapters
RECURSIVE all_entries_flagged(_)
all_entries_flagged(lines) ==
    IF lines = <<>> THEN <<>>
    ELSE LET parts == split_maxsplit1(Head(lines))
         IN  IF Len(parts) >= 2
             THEN <<[time |-> parts[1], title |-> parts[2],
                     excluded |-> startswith(parts[2], ExclusionMarker)]>>
                  \o all_entries_flagged(Tail(lines))
             ELSE all_entries_flagged(Tail(lines))

\* A resolver that ends every entry at the next entry that is not excluded.
RECURSIVE build_all_chapters_kept_boundaries(_, _, _)
build_all_chapters_kept_boundaries(entries, full_duration_str, i) ==
    IF i > Len(entries) THEN <<>>
    ELSE LET later == {j \in (i + 1)..Len(entries) : ~entries[j].excluded}
             next == CHOOSE j \in later : \A k \in later : j <= k
         IN  <<[start |-> entries[i].time,
                end |-> IF later # {} THEN entries[next].time
                        ELSE full_duration_str,
                title |-> entries[i].title,
                excluded |-> entries[i].excluded]>>
             \o build_all_chapters_kept_boundaries(entries, full_duration_str, i + 1)

\* lines 466-481 of _parse_all_chapters: the loop from entry i on
RECURSIVE build_all_chapters(_, _, _)
build_all_chapters(entries, full_duration_str, i) ==
    IF i > Len(entries) THEN <<>>
    ELSE <<[start |-> entries[i].time,
            end |-> IF i + 1 <= Len(entries) THEN entries[i + 1].time
                    ELSE full_duration_str,
            title |-> entries[i].title,
            excluded |-> entries[i].excluded]>>
         \o build_all_chapters(entries, full_duration_str, i + 1)

parse_all_chapters(file, duration) ==
    build_all_chapters(all_entries_flagged(nonblank_lines(file)),
                       seconds_to_time_str(duration, FALSE), 1)

\* line 353: the chapters to concatenate
RECURSIVE chapters_to_concat_of(_)
chapters_to_concat_of(all) ==
    IF all = <<>> THEN <<>>
    ELSE IF Head(all).excluded THEN chapters_to_concat_of(Tail(all))
    ELSE <<[start |-> Head(all).start, end |-> Head(all).end,
            title |-> Head(all).title]>> \o chapters_to_concat_of(Tail(all))

(***************************************************************************)
(* The encoder table and the selector's candidate lists.                   *)
(***************************************************************************)
\* self.gpu_encoder = None
NoEncoder == [name |-> "None", encoder |-> "None", params |-> <<>>]

VideoToolbox == [name |-> "VideoToolbox (macOS)", encoder |-> "hevc_videotoolbox",
                 params |-> <<"-profile:v", "main">>]

Nvenc == [name |-> "NVIDIA NVENC", encoder |-> "hevc_nvenc",
          params |-> <<"-preset", "p4", "-tune", "hq">>]

Qsv == [name |-> "Intel Quick Sync", encoder |-> "hevc_qsv",
        params |-> <<"-preset", "medium">>]

Amf == [name |-> "AMD AMF", encoder |-> "hevc_amf",
        params |-> <<"-quality", "balanced">>]

\* encoder_configs of _configure_gpu_encoder
encoder_configs ==
    [g \in {"videotoolbox", "nvenc", "qsv", "amf"} |->
        CASE g = "videotoolbox" -> VideoToolbox
          [] g = "nvenc" -> Nvenc
          [] g = "qsv" -> Qsv
          [] g = "amf" -> Amf]

\* the list _detect_gpu_encoder tests on a host
detect_order(system) ==
    CASE system = "Darwin" -> <<VideoToolbox>>
      [] system = "Windows" -> <<Nvenc, Amf, Qsv>>
      [] OTHER -> <<Nvenc, Qsv>>

\* A selector that tests the table entry of the named encoder whatever the
\* mode, the automatic mode included.
candidates_ignoring_host(gpu_arg, system) ==
    IF gpu_arg \in DOMAIN encoder_configs THEN <<encoder_configs[gpu_arg]>>
    ELSE IF gpu_arg = "auto" THEN <<Nvenc, Qsv>>
    ELSE <<>>

\* the encoders _configure_gpu_encoder tests, in order, for an argument
candidates(gpu_arg, system) ==
    IF gpu_arg = "none" THEN <<>>
    ELSE IF gpu_arg = "auto" THEN detect_order(system)
    ELSE IF gpu_arg \in DOMAIN encoder_configs THEN <<encoder_configs[gpu_arg]>>
    ELSE <<>>

\* _test_encoder: returncode == 0, and False when the process cannot be spawned
test_encoder_result(outcome) == outcome = "exit0"

(***************************************************************************)
(* The inputs of a run.                                                    *)
(***************************************************************************)
GpuArgs == {"auto", "none", "videotoolbox", "nvenc", "qsv", "amf"}
Systems == {"Darwin", "Windows", "Linux"}
VideoCodecs == {"copy", "libx264"}
ProcessOutcomes == {"exit0", "exit1", "spawn_error"}

Line(time, title) == time \o <<" ">> \o title

T_0_00 == <<"0", ":", "0", "0">>
T_0_10 == <<"0", ":", "1", "0">>
T_0_70 == <<"0", ":", "7", "0">>
TitleA == <<"A">>
TitleCM == <<"-", "-", "C">>
TitleDash == <<"-", "B">>

\* the lines of the annotation files of a run: each time with each title, and
\* a line of one field
RunLines ==
    {Line(t, n) : t \in {T_0_00, T_0_10, T_0_70}, n \in {TitleA, TitleCM}}
    \cup {<<"x">>}

SeqsUpTo(S, n) == UNION {[1..k -> S] : k \in 0..n}

RunFiles == SeqsUpTo(RunLines, MaxLines)

\* the annotation file the encoder arguments are varied on
ReferenceFile == <<Line(T_0_00, TitleA), Line(T_0_10, TitleA)>>

\* what ffprobe reports as the duration of the video, in ticks
VideoDurations == {15 * TicksPerSecond}

\* the lines a child process writes to its standard output
OutputLines ==
    {OutTimeKey \o <<"=", "5", "0", "0", "0", "0", "0", "0">>,
     OutTimeKey \o <<"=", "1", "2", "0", "0", "0", "0", "0", "0">>,
     <<"f", "p", "s", "=", "3", "0">>}

(***************************************************************************)
(* The commands: one argument is a word, or a number with its unit.        *)
(***************************************************************************)
Word(w) == [s |-> w, n |-> 0]
Num(x) == [s |-> "", n |-> x]
Kbps(x) == [s |-> "k", n |-> x]

\* line 558: the bitrate when none is detected
DefaultBitrate == 5000
\* argparse default of --audio-bitrate, line 749
AudioBitrate == 192

\* the arguments every chapter command starts with
command_head ==
    <<Word("ffmpeg"), Word("-y"), Word("-hide_banner"), Word("-loglevel"),
      Word("error"), Word("-progress"), Word("pipe:1")>>

\* the audio arguments and what follows them: lines 665-678
command_tail(acodec, duration, out) ==
    (IF acodec = "copy"
     THEN <<Word("-c:a"), Word("copy")>>
     ELSE <<Word("-c:a"), Word(acodec), Word("-b:a"), Kbps(AudioBitrate)>>)
    \o <<Word("-movflags"), Word("+faststart")>>
    \o (IF duration > 0 THEN <<Word("-t"), Num(duration)>> ELSE <<>>)
    \o <<[s |-> "output", n |-> out]>>

\* A planner that looks at the copy mode before anything else.
split_command_copy_first(acc, enc, vcodec, acodec, start_seconds, duration, bitrate, out) ==
    command_head
    \o (IF acc
        THEN <<Word("-i"), Word("input"), Word("-ss"), Num(start_seconds)>>
        ELSE <<Word("-ss"), Num(start_seconds), Word("-i"), Word("input")>>)
    \o (IF vcodec = "copy"
        THEN <<Word("-c:v"), Word("copy")>>
        ELSE IF enc # NoEncoder
        THEN <<Word("-c:v"), Word(enc.encoder)>>
             \o [k \in 1..Len(enc.params) |-> Word(enc.params[k])]
             \o <<Word("-b:v"), Kbps(bitrate)>>
        ELSE <<Word("-c:v"), Word(vcodec), Word("-b:v"), Kbps(bitrate)>>)
    \o command_tail(acodec, duration, out)

\* A planner that always seeks before it opens the input.
split_command_seek_first(acc, enc, vcodec, acodec, start_seconds, duration, bitrate, out) ==
    command_head
    \o <<Word("-ss"), Num(start_seconds), Word("-i"), Word("input")>>
    \o (IF enc # NoEncoder /\ (acc \/ vcodec # "copy")
        THEN <<Word("-c:v"), Word(enc.encoder)>>
             \o [k \in 1..Len(enc.params) |-> Word(enc.params[k])]
             \o <<Word("-b:v"), Kbps(bitrate)>>
        ELSE IF acc /\ vcodec = "copy"
        THEN <<Word("-c:v"), Word("libx265"), Word("-crf"), Word("23"),
               Word("-preset"), Word("medium")>>
        ELSE IF vcodec = "copy"
        THEN <<Word("-c:v"), Word("copy")>>
        ELSE <<Word("-c:v"), Word(vcodec), Word("-b:v"), Kbps(bitrate)>>)
    \o command_tail(acodec, duration, out)

\* lines 625-678 of split_chapter_with_progress
split_command(acc, enc, vcodec, acodec, start_seconds, duration, bitrate, out) ==
    <<Word("ffmpeg"), Word("-y"), Word("-hide_banner"), Word("-loglevel"),
      Word("error"), Word("-progress"), Word("pipe:1")>>
    \o (IF acc
        THEN <<Word("-i"), Word("input"), Word("-ss"), Num(start_seconds)>>
        ELSE <<Word("-ss"), Num(start_seconds), Word("-i"), Word("input")>>)
    \o (IF enc # NoEncoder /\ (acc \/ vcodec # "copy")
        THEN <<Word("-c:v"), Word(enc.encoder)>>
             \o [k \in 1..Len(enc.params) |-> Word(enc.params[k])]
             \o <<Word("-b:v"), Kbps(bitrate)>>
        ELSE IF acc /\ vcodec = "copy"
        THEN <<Word("-c:v"), Word("libx265"), Word("-crf"), Word("23"),
               Word("-preset"), Word("medium")>>
        ELSE IF vcodec = "copy"
        THEN <<Word("-c:v"), Word("copy")>>
        ELSE <<Word("-c:v"), Word(vcodec), Word("-b:v"), Kbps(bitrate)>>)
    \o (IF acodec = "copy"
        THEN <<Word("-c:a"), Word("copy")>>
        ELSE <<Word("-c:a"), Word(acodec), Word("-b:a"), Kbps(AudioBitrate)>>)
    \o <<Word("-movflags"), Word("+faststart")>>
    \o (IF duration > 0 THEN <<Word("-t"), Num(duration)>> ELSE <<>>)
    \o <<[s |-> "output", n |-> out]>>

\* lines 270-328 of split_chapter, the variant without a progress bar
split_chapter(acc, enc, vcodec, acodec, start_seconds, duration, bitrate, out) ==
    <<Word("ffmpeg"), Word("-y"), Word("-hide_banner"), Word("-loglevel"),
      Word("error"), Word("-progress"), Word("pipe:1")>>
    \o (IF acc
        THEN <<Word("-i"), Word("input"), Word("-ss"), Num(start_seconds)>>
        ELSE <<Word("-ss"), Num(start_seconds), Word("-i"), Word("input")>>)
    \o (IF enc # NoEncoder /\ (acc \/ vcodec # "copy")
        THEN <<Word("-c:v"), Word(enc.encoder)>>
             \o [k \in 1..Len(enc.params) |-> Word(enc.params[k])]
             \o <<Word("-b:v"), Kbps(bitrate)>>
        ELSE IF acc /\ vcodec = "copy"
        THEN <<Word("-c:v"), Word("libx265"), Word("-crf"), Word("23"),
               Word("-preset"), Word("medium")>>
        ELSE IF vcodec = "copy"
        THEN <<Word("-c:v"), Word("copy")>>
        ELSE <<Word("-c:v"), Word(vcodec), Word("-b:v"), Kbps(bitrate)>>)
    \o (IF acodec = "copy"
        THEN <<Word("-c:a"), Word("copy")>>
        ELSE <<Word("-c:a"), Word(acodec), Word("-b:a"), Kbps(AudioBitrate)>>)
    \o <<Word("-movflags"), Word("+faststart")>>
    \o (IF duration > 0 THEN <<Word("-t"), Num(duration)>> ELSE <<>>)
    \o <<[s |-> "output", n |-> out]>>

\* lines 383-391 of concat_chapters
extract_command(start_seconds, duration, temp) ==
    <<Word("ffmpeg"), Word("-y"), Word("-hide_banner"), Word("-loglevel"),
      Word("error"), Word("-ss"), Num(start_seconds), Word("-i"), Word("input"),
      Word("-t"), Num(duration), Word("-c"), Word("copy"),
      Word("-avoid_negative_ts"), Word("make_zero"), [s |-> "temp", n |-> temp]>>

\* lines 403-411 of concat_chapters
concat_command ==
    <<Word("ffmpeg"), Word("-y"), Word("-hide_banner"), Word("-loglevel"),
      Word("error"), Word("-f"), Word("concat"), Word("-safe"), Word("0"),
      Word("-i"), Word("concat_list.txt"), Word("-c"), Word("copy"),
      Word("-movflags"), Word("+faststart"), Word("output")>>

(***************************************************************************)
(* The state of a run.                                                     *)
(***************************************************************************)
VARIABLES
    pc,              \* where the run is
    gpu,             \* args.gpu
    accurate,        \* args.accurate
    video_codec,     \* args.video_codec
    audio_codec,     \* args.audio_codec
    concat,          \* args.concat
    system,          \* platform.system()
    chapter_file,    \* the lines of the annotation file
    gpu_encoder,     \* self.gpu_encoder
    probe_queue,     \* the encoders the selector has still to test
    probes,          \* the encoders tested so far, each with its outcome
    video_duration,  \* what get_video_duration returned
    video_bitrate,   \* video_bitrate of split_video
    chapters,        \* chapters of split_video, chapters_to_concat of concat_chapters
    all_chapters,    \* all_chapters of concat_chapters
    i,               \* the chapter the loop is at, from 1
    total_duration,  \* pbar.total
    elapsed_total,   \* elapsed_total of split_video
    pbar_n,          \* pbar.n
    output_files,    \* output_files of split_video
    process,         \* the child process of split_chapter_with_progress
    last_cmd,        \* the command of the last ffmpeg process launched
    spawned,         \* every external process launched so far
    exits,           \* the exit code of every chapter's child so far
    console,         \* what the run has written for the caller
    error,           \* the exception that ended the run
    temp_files,      \* temp_files of concat_chapters
    files,           \* the files of the working directory
    new_chapter_file, \* the lines written to the generated annotation file
    ffmpeg_results,  \* what each run_ffmpeg_command call of concat_chapters returned
    seconds,         \* seconds of seconds_to_time_str
    time_str,        \* time_str of time_to_seconds
    parsed_seconds   \* what time_to_seconds returned

inputs == <<gpu, accurate, video_codec, audio_codec, concat, system, chapter_file>>
encoderVars == <<gpu_encoder, probe_queue, probes>>
parseVars == <<video_duration, video_bitrate, chapters, all_chapters>>
progressVars == <<total_duration, elapsed_total, pbar_n>>
concatVars == <<temp_files, files, new_chapter_file, ffmpeg_results>>
codecVars == <<seconds, time_str, parsed_seconds>>
vars == <<pc, inputs, encoderVars, parseVars, i, progressVars, output_files,
          process, last_cmd, spawned, exits, console, error, concatVars,
          codecVars>>

NoCode == 0 - 1
NoProcess == [alive |-> FALSE, stdout |-> <<>>, written |-> 0, returncode |-> NoCode]

AudioCodecs == {"copy", "aac"}
ExitCodes == {0, 1}
\* what get_stream_bitrate returns: 0 stands for None
DetectedBitrates == {0}
DurationFailed == 0 - 1

\* The runs checked: every encoder argument on every host, every way to build
\* a chapter command, and every annotation file; each is varied with the
\* other arguments at their reference values.
EncoderRun ==
    /\ concat /\ accurate /\ video_codec = "copy" /\ audio_codec = "copy"
    /\ chapter_file = ReferenceFile

CommandRun ==
    /\ gpu \in {"none", "nvenc"} /\ system = "Linux" /\ ~concat
    /\ chapter_file = ReferenceFile

FileRun ==
    /\ gpu = "none" /\ system = "Linux" /\ accurate
    /\ video_codec = "copy" /\ audio_codec = "copy"

\* a run starts with its arguments parsed and its files in place
Init ==
    /\ pc = "start"
    /\ gpu \in GpuArgs
    /\ system \in Systems
    /\ accurate \in BOOLEAN
    /\ video_codec \in VideoCodecs
    /\ audio_codec \in AudioCodecs
    /\ concat \in BOOLEAN
    /\ chapter_file \in RunFiles
    /\ (EncoderRun \/ CommandRun \/ FileRun)
    /\ gpu_encoder = NoEncoder
    /\ probe_queue = <<>>
    /\ probes = <<>>
    /\ video_duration = 0
    /\ video_bitrate = 0
    /\ chapters = <<>>
    /\ all_chapters = <<>>
    /\ i = 0
    /\ total_duration = 0
    /\ elapsed_total = 0
    /\ pbar_n = 0
    /\ output_files = <<>>
    /\ process = NoProcess
    /\ last_cmd = <<>>
    /\ spawned = <<>>
    /\ exits = <<>>
    /\ console = <<>>
    /\ error = "None"
    /\ temp_files = <<>>
    /\ files = {}
    /\ new_chapter_file = <<>>
    /\ ffmpeg_results = <<>>
    /\ seconds = 0
    /\ time_str = <<>>
    /\ parsed_seconds = 0

(***************************************************************************)
(* The encoder selector: __init__, _configure_gpu_encoder,                 *)
(* _detect_gpu_encoder and _test_encoder.                                  *)
(***************************************************************************)
\* __init__ up to the first test of an encoder
Construct ==
    /\ pc = "start"
    /\ gpu_encoder' = NoEncoder
    /\ probe_queue' = candidates(gpu, system)
    /\ pc' = IF candidates(gpu, system) = <<>> THEN "configured" ELSE "probing"
    /\ UNCHANGED <<inputs, codecVars, probes, parseVars, i, progressVars, output_files,
                   process, last_cmd, spawned, exits, console, error, concatVars>>

\* A selector that goes on testing after an encoder passed its test.
queue_after_test_going_on(queue, ok) == Tail(queue)

\* the encoders left to test after the test of the head of the queue
queue_after_test(queue, ok) == IF ok THEN <<>> ELSE Tail(queue)

\* one _test_encoder call and what its caller does with the result
TestEncoder ==
    /\ pc = "probing"
    /\ \E outcome \in ProcessOutcomes :
        LET enc == Head(probe_queue)
            ok == test_encoder_result(outcome)
            left == queue_after_test(probe_queue, ok)
        IN  /\ probes' = Append(probes, [encoder |-> enc.encoder, outcome |-> outcome])
            /\ spawned' = Append(spawned, [kind |-> "probe", idx |-> Len(probes) + 1])
            /\ gpu_encoder' = IF ok THEN enc ELSE gpu_encoder
            /\ probe_queue' = left
            /\ pc' = IF left = <<>> THEN "configured" ELSE "probing"
    /\ UNCHANGED <<inputs, codecVars, parseVars, i, progressVars, output_files, process,
                   last_cmd, exits, console, error, concatVars>>

(***************************************************************************)
(* Split mode: split_video and split_chapter_with_progress.                *)
(***************************************************************************)
Msg(kind, idx, fs) == [kind |-> kind, idx |-> idx, files |-> fs]

Min(a, b) == IF a < b THEN a ELSE b

chapter_start(ch) == time_to_seconds(ch.start)

\* duration = end_seconds - start_seconds
chapter_duration(ch) == time_to_seconds(ch.end) - time_to_seconds(ch.start)

\* A total that is computed without reading the timestamps.
some_timestamp_raises_never(chs) == FALSE

\* a start or an end of the list that time_to_seconds refuses
some_timestamp_raises(chs) ==
    \E k \in 1..Len(chs) :
        time_to_seconds_raises(chs[k].start) \/ time_to_seconds_raises(chs[k].end)

\* lines 574-577: total_duration
RECURSIVE sum_durations(_)
sum_durations(chs) ==
    IF chs = <<>> THEN 0
    ELSE sum_durations(SubSeq(chs, 1, Len(chs) - 1)) + chapter_duration(chs[Len(chs)])

\* A progress update that trusts the offset the tool reports.
progress_value_unclamped(elapsed, current_time, duration) == elapsed + current_time

\* line 694: pbar.n for a progress line
progress_value(elapsed, current_time, duration) ==
    elapsed + Min(current_time, duration)

\* A baseline that never moves backwards.
elapsed_after_chapter_clamped(elapsed, duration) ==
    IF duration > 0 THEN elapsed + duration ELSE elapsed

\* line 608: elapsed_total += duration
elapsed_after_chapter(elapsed, duration) == elapsed + duration

\* A loop that gives up at the first chapter that fails.
pc_after_chapter_stopping(success) == IF success THEN "split_loop" ELSE "error"

\* lines 605-606: a failed chapter is written down and the loop goes on
pc_after_chapter(success) == "split_loop"

\* A check that lets an empty list through.
no_chapters_unchecked(chs) == FALSE

\* lines 550 and 355: if not chapters
no_chapters(chs) == chs = <<>>

\* the run ends with an exception: main writes it and exits with status 1
Raise(kind) ==
    /\ pc' = "error"
    /\ error' = kind
    /\ console' = Append(console, Msg("error", 0, <<>>))

\* split_video up to the first chapter: lines 543-584
SplitBegin ==
    /\ pc = "configured"
    /\ ~concat
    /\ \E dur \in VideoDurations \cup {DurationFailed}, detected \in DetectedBitrates :
        LET chs == parse_chapter_file(chapter_file, dur)
            probe_duration == [kind |-> "ffprobe_duration", idx |-> 0]
            probe_bitrate == [kind |-> "ffprobe_bitrate", idx |-> 0]
        IN  IF dur = DurationFailed
            THEN /\ Raise("DurationQueryFailed")
                 /\ spawned' = Append(spawned, probe_duration)
                 /\ UNCHANGED <<parseVars, i, progressVars>>
            ELSE IF no_chapters(chs)
            THEN /\ Raise("NoChaptersFound")
                 /\ spawned' = Append(spawned, probe_duration)
                 /\ video_duration' = dur
                 /\ UNCHANGED <<video_bitrate, chapters, all_chapters, i, progressVars>>
            ELSE IF some_timestamp_raises(chs)
            THEN /\ Raise("InvalidTimestamp")
                 /\ spawned' = spawned \o <<probe_duration, probe_bitrate>>
                 /\ video_duration' = dur
                 /\ chapters' = chs
                 /\ video_bitrate' = IF detected # 0 THEN detected ELSE DefaultBitrate
                 /\ UNCHANGED <<all_chapters, i, progressVars>>
            ELSE /\ pc' = "split_loop"
                 /\ spawned' = spawned \o <<probe_duration, probe_bitrate>>
                 /\ video_duration' = dur
                 /\ chapters' = chs
                 /\ video_bitrate' = IF detected # 0 THEN detected ELSE DefaultBitrate
                 /\ total_duration' = sum_durations(chs)
                 /\ elapsed_total' = 0
                 /\ pbar_n' = 0
                 /\ i' = 1
                 /\ UNCHANGED <<all_chapters, console, error>>
    /\ UNCHANGED <<inputs, codecVars, encoderVars, output_files, process, last_cmd, exits,
                   concatVars>>

\* the loop body up to the launch of the child: lines 586-603 and 625-685
ChapterLaunch ==
    /\ pc = "split_loop"
    /\ i <= Len(chapters)
    /\ output_files' = Append(output_files, i)
    /\ \E started \in BOOLEAN :
        IF started
        THEN /\ pc' = "reading"
             /\ process' = [alive |-> TRUE, stdout |-> <<>>, written |-> 0,
                            returncode |-> NoCode]
             /\ last_cmd' = split_command(accurate, gpu_encoder, video_codec,
                                audio_codec, chapter_start(chapters[i]),
                                chapter_duration(chapters[i]), video_bitrate, i)
             /\ spawned' = Append(spawned, [kind |-> "transcode", idx |-> i])
             /\ UNCHANGED <<console, error>>
        ELSE /\ Raise("OSError")
             /\ UNCHANGED <<process, last_cmd, spawned>>
    /\ UNCHANGED <<inputs, codecVars, encoderVars, parseVars, i, progressVars, exits,
                   concatVars>>

\* the child writes a line to its standard output
ChildWrite ==
    /\ process.alive
    /\ process.written < MaxOutput
    /\ \E line \in OutputLines :
        process' = [process EXCEPT !.stdout = Append(@, line),
                                   !.written = @ + 1]
    /\ UNCHANGED <<pc, inputs, codecVars, encoderVars, parseVars, i, progressVars,
                   output_files, last_cmd, spawned, exits, console, error,
                   concatVars>>

\* the child exits
ChildExit ==
    /\ process.alive
    /\ \E code \in ExitCodes :
        process' = [process EXCEPT !.alive = FALSE, !.returncode = code]
    /\ UNCHANGED <<pc, inputs, codecVars, encoderVars, parseVars, i, progressVars,
                   output_files, last_cmd, spawned, exits, console, error,
                   concatVars>>

\* one turn of the read loop with a line read: lines 688-695
ReadLine ==
    /\ pc = "reading"
    /\ process.stdout # <<>>
    /\ LET current_time == parse_progress_output(Head(process.stdout))
       IN  pbar_n' = IF current_time # NoOffset
                     THEN progress_value(elapsed_total, current_time,
                                         chapter_duration(chapters[i]))
                     ELSE pbar_n
    /\ process' = [process EXCEPT !.stdout = Tail(@)]
    /\ UNCHANGED <<pc, inputs, codecVars, encoderVars, parseVars, i, total_duration,
                   elapsed_total, output_files, last_cmd, spawned, exits,
                   console, error, concatVars>>

\* A read loop that ends at the end of the output, whether or not the child
\* has exited.
ChapterFinish_without_exit ==
    /\ pc = "reading"
    /\ process.stdout = <<>>
    /\ LET success == process.returncode = 0
           elapsed == elapsed_after_chapter(elapsed_total,
                                            chapter_duration(chapters[i]))
       IN  /\ console' = IF success THEN console
                         ELSE Append(console, Msg("chapter_failed", i, <<>>))
           /\ elapsed_total' = elapsed
           /\ pbar_n' = elapsed
           /\ pc' = pc_after_chapter(success)
    /\ exits' = Append(exits, process.returncode)
    /\ i' = i + 1
    /\ UNCHANGED <<inputs, codecVars, encoderVars, parseVars, total_duration,
                   output_files, process, last_cmd, spawned, error, concatVars>>

\* A read loop that ends as soon as the child has exited, whatever is left
\* of its output.
ChapterFinish_leaving_lines ==
    /\ pc = "reading"
    /\ ~process.alive
    /\ LET success == process.returncode = 0
           elapsed == elapsed_after_chapter(elapsed_total,
                                            chapter_duration(chapters[i]))
       IN  /\ console' = IF success THEN console
                         ELSE Append(console, Msg("chapter_failed", i, <<>>))
           /\ elapsed_total' = elapsed
           /\ pbar_n' = elapsed
           /\ pc' = pc_after_chapter(success)
    /\ exits' = Append(exits, process.returncode)
    /\ i' = i + 1
    /\ UNCHANGED <<inputs, codecVars, encoderVars, parseVars, total_duration,
                   output_files, process, last_cmd, spawned, error, concatVars>>

\* A loop that falls back to the software path once a chapter has failed.
ChapterFinish_dropping_encoder ==
    /\ pc = "reading"
    /\ process.stdout = <<>>
    /\ ~process.alive
    /\ LET success == process.returncode = 0
           elapsed == elapsed_after_chapter(elapsed_total,
                                            chapter_duration(chapters[i]))
       IN  /\ console' = IF success THEN console
                         ELSE Append(console, Msg("chapter_failed", i, <<>>))
           /\ gpu_encoder' = IF success THEN gpu_encoder ELSE NoEncoder
           /\ elapsed_total' = elapsed
           /\ pbar_n' = elapsed
           /\ pc' = pc_after_chapter(success)
    /\ exits' = Append(exits, process.returncode)
    /\ i' = i + 1
    /\ UNCHANGED <<inputs, codecVars, probe_queue, probes, parseVars, total_duration,
                   output_files, process, last_cmd, spawned, error, concatVars>>

\* the read loop ends and the loop body finishes: lines 689-698 and 605-610
ChapterFinish ==
    /\ pc = "reading"
    /\ process.stdout = <<>>
    /\ ~process.alive
    /\ LET success == process.returncode = 0
           elapsed == elapsed_after_chapter(elapsed_total,
                                            chapter_duration(chapters[i]))
       IN  /\ console' = IF success THEN console
                         ELSE Append(console, Msg("chapter_failed", i, <<>>))
           /\ elapsed_total' = elapsed
           /\ pbar_n' = elapsed
           /\ pc' = pc_after_chapter(success)
    /\ exits' = Append(exits, process.returncode)
    /\ i' = i + 1
    /\ UNCHANGED <<inputs, codecVars, encoderVars, parseVars, total_duration, output_files,
                   process, last_cmd, spawned, error, concatVars>>

\* split_video returns and main writes the summary: lines 612 and 814-817
SplitFinish ==
    /\ pc = "split_loop"
    /\ i > Len(chapters)
    /\ pc' = "done"
    /\ console' = Append(console, Msg("generated", Len(output_files), output_files))
    /\ UNCHANGED <<inputs, codecVars, encoderVars, parseVars, i, progressVars, output_files,
                   process, last_cmd, spawned, exits, error, concatVars>>

(***************************************************************************)
(* Concat mode: concat_chapters and _create_concat_chapter_file.           *)
(***************************************************************************)
TempFile(k) == <<"temp_chapter", k>>
ConcatList == <<"concat_list", 0>>
ConcatOutput == <<"concat_output", 0>>
NewChapterFile == <<"concat_chapters", 0>>

\* A finally clause that removes the temporary chapter files only.
cleanup_keeping_manifest(fs, temps) ==
    fs \ {TempFile(temps[k]) : k \in 1..Len(temps)}

\* lines 427-433: the finally clause
cleanup(fs, temps) ==
    fs \ ({TempFile(temps[k]) : k \in 1..Len(temps)} \cup {ConcatList})

\* A generator that lets the excluded chapters take their time on the new
\* timeline.
RECURSIVE new_chapters_counting_excluded(_, _)
new_chapters_counting_excluded(all, current_time) ==
    IF all = <<>> THEN <<>>
    ELSE IF Head(all).excluded
    THEN new_chapters_counting_excluded(Tail(all),
                                        current_time + chapter_duration(Head(all)))
    ELSE <<seconds_to_time_str(current_time, TRUE) \o <<" ">> \o Head(all).title>>
         \o new_chapters_counting_excluded(Tail(all),
                                           current_time + chapter_duration(Head(all)))

\* lines 506-521 of _create_concat_chapter_file, as the lines written
RECURSIVE new_chapters(_, _)
new_chapters(all, current_time) ==
    IF all = <<>> THEN <<>>
    ELSE IF Head(all).excluded THEN new_chapters(Tail(all), current_time)
    ELSE <<seconds_to_time_str(current_time, TRUE) \o <<" ">> \o Head(all).title>>
         \o new_chapters(Tail(all), current_time + chapter_duration(Head(all)))

\* concat_chapters up to the first extraction: lines 345-370
ConcatBegin ==
    /\ pc = "configured"
    /\ concat
    /\ \E dur \in VideoDurations \cup {DurationFailed} :
        LET all == parse_all_chapters(chapter_file, dur)
            probe_duration == [kind |-> "ffprobe_duration", idx |-> 0]
        IN  /\ spawned' = Append(spawned, probe_duration)
            /\ IF dur = DurationFailed
               THEN /\ Raise("DurationQueryFailed")
                    /\ UNCHANGED <<parseVars, i, temp_files>>
               ELSE IF no_chapters(chapters_to_concat_of(all))
               THEN /\ Raise("NoChaptersFound")
                    /\ video_duration' = dur
                    /\ all_chapters' = all
                    /\ UNCHANGED <<video_bitrate, chapters, i, temp_files>>
               ELSE /\ pc' = "concat_loop"
                    /\ video_duration' = dur
                    /\ all_chapters' = all
                    /\ chapters' = chapters_to_concat_of(all)
                    /\ temp_files' = <<>>
                    /\ i' = 1
                    /\ UNCHANGED <<video_bitrate, console, error>>
    /\ UNCHANGED <<inputs, codecVars, encoderVars, progressVars, output_files, process,
                   last_cmd, exits, files, new_chapter_file, ffmpeg_results>>

\* run_ffmpeg_command: returncode == 0, and False when subprocess.run raises
run_ffmpeg_command(outcome) == outcome = "exit0"

\* A loop that goes on with the next chapter after an extraction that failed.
extraction_raises_never(ok) == FALSE

\* line 393: if not run_ffmpeg_command(ffmpeg_command): raise RuntimeError
extraction_raises(ok) == ~ok

\* one extraction: lines 372-394, and the finally clause when it raises
ConcatExtract ==
    /\ pc = "concat_loop"
    /\ i <= Len(chapters)
    /\ temp_files' = Append(temp_files, i)
    /\ IF \/ time_to_seconds_raises(chapters[i].start)
          \/ time_to_seconds_raises(chapters[i].end)
       THEN /\ Raise("InvalidTimestamp")
            /\ files' = cleanup(files, Append(temp_files, i))
            /\ UNCHANGED <<i, last_cmd, spawned, ffmpeg_results>>
       ELSE /\ spawned' = Append(spawned, [kind |-> "extract", idx |-> i])
            /\ last_cmd' = extract_command(chapter_start(chapters[i]),
                                           chapter_duration(chapters[i]), i)
            /\ \E outcome \in ProcessOutcomes :
                LET ok == run_ffmpeg_command(outcome)
                IN  /\ ffmpeg_results' =
                            Append(ffmpeg_results,
                                   [kind |-> "extract", idx |-> i, ok |-> ok])
                    /\ IF extraction_raises(ok)
                       THEN /\ Raise("ConcatStageFailure")
                            /\ files' = cleanup(files \cup {TempFile(i)},
                                                Append(temp_files, i))
                            /\ UNCHANGED i
                       ELSE /\ files' = files \cup {TempFile(i)}
                            /\ i' = i + 1
                            /\ UNCHANGED <<pc, console, error>>
    /\ UNCHANGED <<inputs, codecVars, encoderVars, parseVars, progressVars,
                   output_files, process, exits, new_chapter_file>>

\* the merge, the new annotation file and the return: lines 396-433
ConcatMerge ==
    /\ pc = "concat_loop"
    /\ i > Len(chapters)
    /\ spawned' = Append(spawned, [kind |-> "merge", idx |-> 0])
    /\ last_cmd' = concat_command
    /\ \E outcome \in ProcessOutcomes, written \in BOOLEAN :
        LET ok == run_ffmpeg_command(outcome)
        IN  /\ ffmpeg_results' =
                    Append(ffmpeg_results, [kind |-> "merge", idx |-> 0, ok |-> ok])
            /\ IF ~ok
               THEN /\ Raise("ConcatStageFailure")
                    /\ files' = cleanup(files \cup {ConcatList}, temp_files)
                    /\ UNCHANGED new_chapter_file
               ELSE IF ~written
               THEN /\ Raise("OSError")
                    /\ files' = cleanup(files \cup {ConcatList, ConcatOutput},
                                        temp_files)
                    /\ UNCHANGED new_chapter_file
               ELSE /\ pc' = "done"
                    /\ new_chapter_file' = new_chapters(all_chapters, 0)
                    /\ files' = cleanup(files \cup {ConcatList, ConcatOutput,
                                                    NewChapterFile}, temp_files)
                    /\ console' = Append(console, Msg("concatenated", 0, <<>>))
                    /\ UNCHANGED error
    /\ UNCHANGED <<inputs, codecVars, encoderVars, parseVars, i, progressVars,
                   output_files, process, exits, temp_files>>

Next ==
    \/ Construct
    \/ TestEncoder
    \/ SplitBegin
    \/ ChapterLaunch
    \/ ChildWrite
    \/ ChildExit
    \/ ReadLine
    \/ ChapterFinish
    \/ SplitFinish
    \/ ConcatBegin
    \/ ConcatExtract
    \/ ConcatMerge

Spec == Init /\ [][Next]_vars

\* The supervisor is one sequential program that is never suspended: when its
\* read loop can take a turn or end, it does.  This is weak fairness of
\* ReadLine and of ChapterFinish, WF_vars(ReadLine) /\ WF_vars(ChapterFinish),
\* with ENABLED written out as the guard of each action.
FairSpec ==
    /\ Spec
    /\ \/ []<>~(pc = "reading" /\ process.stdout # <<>>)
       \/ []<><<ReadLine>>_vars
    /\ \/ []<>~(pc = "reading" /\ process.stdout = <<>> /\ ~process.alive)
       \/ []<><<ChapterFinish>>_vars

(***************************************************************************)
(* parse_chapter_file on its own: the resolver applied to an annotation    *)
(* file and a duration drawn from wider sets than the runs use.            *)
(***************************************************************************)
T_0_05 == <<"0", ":", "0", "5">>
TitleTwoWords == <<"A", " ", " ", "b">>

ParseLines ==
    {Line(t, n) : t \in {T_0_00, T_0_10, T_0_05}, n \in {TitleA, TitleCM, TitleDash}}
    \cup {<<"x">>, <<" ">>, <<" ">> \o T_0_10 \o <<" ", " ">> \o TitleTwoWords \o <<" ">>}

ParseFiles == SeqsUpTo(ParseLines, MaxLines)

ParseDurations == {15 * TicksPerSecond, 3725 * TicksPerSecond + TicksPerSecond \div 2}

InitParse ==
    /\ pc = "parse"
    /\ chapter_file \in ParseFiles
    /\ video_duration \in ParseDurations
    /\ gpu = "none" /\ system = "Linux" /\ accurate = TRUE
    /\ video_codec = "copy" /\ audio_codec = "copy" /\ concat = FALSE
    /\ gpu_encoder = NoEncoder
    /\ probe_queue = <<>>
    /\ probes = <<>>
    /\ video_bitrate = 0
    /\ chapters = <<>>
    /\ all_chapters = <<>>
    /\ i = 0
    /\ total_duration = 0
    /\ elapsed_total = 0
    /\ pbar_n = 0
    /\ output_files = <<>>
    /\ process = NoProcess
    /\ last_cmd = <<>>
    /\ spawned = <<>>
    /\ exits = <<>>
    /\ console = <<>>
    /\ error = "None"
    /\ temp_files = <<>>
    /\ files = {}
    /\ new_chapter_file = <<>>
    /\ ffmpeg_results = <<>>
    /\ seconds = 0
    /\ time_str = <<>>
    /\ parsed_seconds = 0

\* chapters = self.parse_chapter_file(chapter_file, input_file)
ParseChapterFile ==
    /\ pc = "parse"
    /\ chapters' = parse_chapter_file(chapter_file, video_duration)
    /\ pc' = "parsed"
    /\ UNCHANGED <<inputs, codecVars, encoderVars, video_duration, video_bitrate, all_chapters,
                   i, progressVars, output_files, process, last_cmd, spawned,
                   exits, console, error, concatVars>>

\* all_chapters = self._parse_all_chapters(chapter_file, input_file)
ParseAllChapters ==
    /\ pc = "parsed"
    /\ all_chapters' = parse_all_chapters(chapter_file, video_duration)
    /\ pc' = "parsed_all"
    /\ UNCHANGED <<inputs, codecVars, encoderVars, video_duration, video_bitrate,
                   chapters, i, progressVars, output_files, process, last_cmd,
                   spawned, exits, console, error, concatVars>>

NextParse == ParseChapterFile \/ ParseAllChapters

SpecParse == InitParse /\ [][NextParse]_vars

(***************************************************************************)
(* The time codec on its own: seconds_to_time_str followed by              *)
(* time_to_seconds on seconds drawn from [0, 200000.9996], and             *)
(* time_to_seconds on texts of every form.                                 *)
(***************************************************************************)
\* seconds of the round trip, in ticks: whole seconds up to 55:33:20 with
\* fractions of 0, 0.0004, 0.0006, 0.123, 0.234, 0.5, 0.9994 and 0.9996 s
\* (no fraction is half a millisecond, where the rounding of "%06.3f" depends
\* on the binary value of the float)
RoundTripSeconds ==
    {w * TicksPerSecond + (f * TicksPerSecond) \div 10000 :
        w \in {0, 1, 59, 60, 61, 3599, 3600, 3661, 86399, 200000},
        f \in {0, 4, 6, 1230, 2340, 5000, 9994, 9996}}

HourTexts == {<<>>, <<"1", ":">>, <<"1", "2", ":">>}
MinuteTexts == {<<"0", "0">>, <<"5", "9">>, <<"6", "0">>, <<"7", "5">>}
SecondTexts ==
    {<<"0", "0">>, <<"5", "9">>, <<"6", "0">>, <<"5", "9", ".", "9", "9", "9">>,
     <<"6", "0", ".", "5">>, <<"0", "5", ".">>}

\* texts that are no timestamp, or one the strict pattern refuses
OddTexts ==
    {<<"a", "b", "c">>,
     <<"5">>,
     <<"1", ":", "2", ":", "3", ":", "4">>,
     <<"1", ":", ":", "2">>,
     <<":", "5">>,
     <<>>,
     <<" ", "1", ":", "0", "2", " ">>,
     <<"1", ":", "2", ".", "5", ":", "3">>,
     <<"1", ":", "7", "5", ":", " ", "5">>,
     <<"1", ":", " ", "7", "5", ":", "0", "0">>,
     <<"0", ":", "0", "0", ":", "6", "0", ".">>,
     <<"1", ":", "-", "5", ":", "0", "0">>,
     <<"-", "1", ":", "5", "9", ":", "5", "0", ".", "0", "0", "0">>,
     <<"1", ":", "+", "5", ":", "0", "0">>,
     <<"1", ":", "5", ":", ".", "5">>,
     <<"1", ":", "2", ":">>,
     <<"a", ":", "b", ":", "c">>,
     <<"1", ":", "2", ":", "3", "x">>,
     <<"0", "1", ":", "2", "3", ":", "4", "5", ".", "6", "7", "8">>,
     <<"5", "5", ":", "5", "9", ":", "5", "9", ".", "9", "9", "9">>,
     <<"0", ":", "6", "0", ".", "5", ":", "0", "0">>,
     <<"1", ".", "5", ":", "0", "0">>,
     <<"0", "0", ":", "0", "0", ":", "5", "9", ".", "9", "9", "9", "9">>}

TimeTexts ==
    {h \o m \o <<":">> \o sec :
        h \in HourTexts, m \in MinuteTexts, sec \in SecondTexts}
    \cup OddTexts

InitCodec ==
    /\ \/ pc = "format" /\ seconds \in RoundTripSeconds /\ time_str = <<>>
       \/ pc = "parse" /\ seconds = 0 /\ time_str \in TimeTexts
    /\ parsed_seconds = 0
    /\ error = "None"
    /\ gpu = "none" /\ system = "Linux" /\ accurate = TRUE
    /\ video_codec = "copy" /\ audio_codec = "copy" /\ concat = FALSE
    /\ chapter_file = <<>>
    /\ gpu_encoder = NoEncoder
    /\ probe_queue = <<>>
    /\ probes = <<>>
    /\ video_duration = 0
    /\ video_bitrate = 0
    /\ chapters = <<>>
    /\ all_chapters = <<>>
    /\ i = 0
    /\ total_duration = 0
    /\ elapsed_total = 0
    /\ pbar_n = 0
    /\ output_files = <<>>
    /\ process = NoProcess
    /\ last_cmd = <<>>
    /\ spawned = <<>>
    /\ exits = <<>>
    /\ console = <<>>
    /\ temp_files = <<>>
    /\ files = {}
    /\ new_chapter_file = <<>>
    /\ ffmpeg_results = <<>>

\* time_str = seconds_to_time_str(seconds, include_ms=True)
FormatTime ==
    /\ pc = "format"
    /\ time_str' = seconds_to_time_str(seconds, TRUE)
    /\ pc' = "formatted"
    /\ UNCHANGED <<inputs, seconds, parsed_seconds, encoderVars, parseVars, i,
                   progressVars, output_files, process, last_cmd, spawned,
                   exits, console, error, concatVars>>

\* parsed_seconds = time_to_seconds(time_str), or ValueError
ParseTime ==
    /\ pc \in {"formatted", "parse"}
    /\ pc' = IF pc = "formatted" THEN "round_trip" ELSE "parsed"
    /\ IF time_to_seconds_raises(time_str)
       THEN error' = "InvalidTimestamp" /\ UNCHANGED parsed_seconds
       ELSE parsed_seconds' = time_to_seconds(time_str) /\ UNCHANGED error
    /\ UNCHANGED <<inputs, seconds, time_str, encoderVars, parseVars, i,
                   progressVars, output_files, process, last_cmd, spawned,
                   exits, console, concatVars>>

NextCodec == FormatTime \/ ParseTime

SpecCodec == InitCodec /\ [][NextCodec]_vars

(***************************************************************************)
(* C1: parse_chapter_file returns one interval for every entry that is not *)
(* excluded, in file order; the interval of entry k starts at the entry's  *)
(* time and ends at the time of entry k+1, excluded or not, or at the      *)
(* formatted duration when k is the last entry; no interval has a title    *)
(* that starts with "--".                                                  *)
(***************************************************************************)
C1_Entries == all_entries(nonblank_lines(chapter_file))

C1_IntervalPerKeptEntry ==
    pc = "parsed" =>
        LET E == C1_Entries
            kept == {k \in 1..Len(E) : ~startswith(E[k].title, ExclusionMarker)}
            pos(k) == Cardinality({j \in kept : j <= k})
            full == seconds_to_time_str(video_duration, FALSE)
        IN  /\ Len(chapters) = Cardinality(kept)
            /\ \A k \in kept :
                chapters[pos(k)] =
                    [start |-> E[k].time,
                     end |-> IF k < Len(E) THEN E[k + 1].time ELSE full,
                     title |-> E[k].title]
            /\ \A c \in 1..Len(chapters) :
                ~startswith(chapters[c].title, ExclusionMarker)

\* a kept entry followed by an excluded one has been resolved: its interval
\* ends at the excluded entry's time and the excluded entry gives no interval
C1_Witness ==
    /\ pc = "parsed"
    /\ Len(C1_Entries) = 2
    /\ ~C1_Entries[1].excluded
    /\ C1_Entries[2].excluded
    /\ Len(chapters) = 1
    /\ chapters[1].end = C1_Entries[2].time
    /\ chapters[1].end # chapters[1].start

(***************************************************************************)
(* Definitions the properties of a run share.                              *)
(***************************************************************************)
Entries == all_entries(nonblank_lines(chapter_file))

\* the annotation file has no entry, or only excluded ones
ResolvesToNothing == \A k \in 1..Len(Entries) : Entries[k].excluded

\* the indexes of the processes of one kind, in the order of their launch
Launched(kind) ==
    LET of_kind == SelectSeq(spawned, LAMBDA p : p.kind = kind)
    IN  [k \in 1..Len(of_kind) |-> of_kind[k].idx]

UpTo(n) == [k \in 1..n |-> k]

Seconds(n) == n * TicksPerSecond

(***************************************************************************)
(* C2, as stated: a run that fails with NoChaptersFound has spawned no     *)
(* external process.                                                       *)
(***************************************************************************)
C2_NoProcessBeforeNoChapters == error = "NoChaptersFound" => spawned = <<>>

(***************************************************************************)
(* C2, amended: when the annotation file resolves to no interval, the run  *)
(* ends with NoChaptersFound (unless the duration query failed first), in  *)
(* split mode and in concat mode, and no transcode, extraction or merge    *)
(* process has been spawned: the only processes spawned before the error   *)
(* are the encoder probes and the duration query.                          *)
(***************************************************************************)
C2_NoTranscodeBeforeNoChapters ==
    /\ ResolvesToNothing =>
        /\ pc \in {"start", "probing", "configured", "error"}
        /\ pc = "error" => error \in {"NoChaptersFound", "DurationQueryFailed"}
    /\ error = "NoChaptersFound" =>
        /\ pc = "error"
        /\ ResolvesToNothing
        /\ \A k \in 1..Len(spawned) :
            spawned[k].kind \in {"probe", "ffprobe_duration"}
        /\ spawned[Len(spawned)].kind = "ffprobe_duration"

\* a file whose entries are all excluded has ended a concat run
C2_Witness ==
    /\ error = "NoChaptersFound"
    /\ concat
    /\ Len(Entries) = 2

(***************************************************************************)
(* C3: in split mode the chapters are launched in resolved order, each     *)
(* once: before chapter i is launched chapters 1..i-1 have been, a run     *)
(* that ends normally has launched every chapter whatever the exit codes,  *)
(* and no exit code ends the run: after a child has exited the run can     *)
(* only end in an error when a later child could not be started.           *)
(***************************************************************************)
C3_EveryChapterAttempted ==
    /\ pc = "split_loop" => Launched("transcode") = UpTo(i - 1)
    /\ pc = "reading" => Launched("transcode") = UpTo(i)
    /\ (pc = "done" /\ ~concat) =>
        /\ Launched("transcode") = UpTo(Len(chapters))
        /\ Len(exits) = Len(chapters)
    /\ (pc = "error" /\ exits # <<>>) =>
        /\ error = "OSError"
        /\ Launched("transcode") = UpTo(Len(exits))

\* a run of two chapters whose first child exited with 1 has ended normally
C3_Witness ==
    /\ pc = "done"
    /\ ~concat
    /\ Len(chapters) = 2
    /\ exits = <<1, 0>>
    /\ Launched("transcode") = <<1, 2>>

(***************************************************************************)
(* C4, as stated: in the summary of a split run no chapter whose child     *)
(* exited non-zero is listed among the generated files.                    *)
(***************************************************************************)
C4_FailedChapterNotGenerated ==
    (pc = "done" /\ ~concat) =>
        LET summary == console[Len(console)]
        IN  \A k \in 1..Len(exits) :
                exits[k] # 0 =>
                    \A f \in 1..Len(summary.files) : summary.files[f] # k

(***************************************************************************)
(* C5: a progress line that carries offset t, read while chapter i with    *)
(* planned duration d is transcoded after chapters of total planned        *)
(* duration b, sets pbar.n to b + min(t, d), which is at most b + d; so    *)
(* while a chapter of duration d >= 0 is transcoded pbar.n is at most      *)
(* b + d.                                                                  *)
(***************************************************************************)
C5_ReadsProgressLine ==
    /\ pc = "reading"
    /\ process.stdout # <<>>
    /\ process'.stdout = Tail(process.stdout)
    /\ parse_progress_output(Head(process.stdout)) # NoOffset

C6_ProgressNeverDecreases == [][pbar_n' >= pbar_n]_vars

(***************************************************************************)
(* C7: between chapters pbar.n and the baseline are the sum of the planned *)
(* durations of the chapters done, failed or not, and when split_video has *)
(* finished pbar.n equals pbar.total, the sum of all planned durations.    *)
(***************************************************************************)
C7_ProgressReachesTotal ==
    /\ pc = "split_loop" =>
        /\ elapsed_total = sum_durations(SubSeq(chapters, 1, i - 1))
        /\ pbar_n = elapsed_total
    /\ (pc = "done" /\ ~concat) =>
        /\ pbar_n = total_duration
        /\ total_duration = sum_durations(chapters)

\* a run of 15 s in two chapters has ended at 15 s though its first child
\* failed
C7_Witness ==
    /\ pc = "done"
    /\ ~concat
    /\ exits = <<1, 0>>
    /\ total_duration = Seconds(15)
    /\ pbar_n = Seconds(15)

(***************************************************************************)
(* C8, as stated: no transcode and no extraction is launched for a chapter *)
(* whose duration is zero or negative.                                     *)
(***************************************************************************)
C8_NonPositiveDurationRejected ==
    \A k \in 1..Len(spawned) :
        spawned[k].kind \in {"transcode", "extract"} =>
            chapter_duration(chapters[spawned[k].idx]) > 0

(***************************************************************************)
(* C9: the selector tests the candidates of its mode one at a time and in  *)
(* order: none for "none", the table entry for a named encoder, the host's *)
(* list for "auto".  It stops at the first test that exits with 0 and      *)
(* resolves to that candidate; a test that exits non-zero or cannot be     *)
(* spawned makes it go on, and when every test has failed it resolves to   *)
(* no encoder.  No test ends the run.                                      *)
(***************************************************************************)
C9_Candidates ==
    CASE gpu = "none" -> <<>>
      [] gpu = "auto" /\ system = "Darwin" -> <<"hevc_videotoolbox">>
      [] gpu = "auto" /\ system = "Windows" -> <<"hevc_nvenc", "hevc_amf", "hevc_qsv">>
      [] gpu = "auto" /\ system = "Linux" -> <<"hevc_nvenc", "hevc_qsv">>
      [] gpu = "videotoolbox" -> <<"hevc_videotoolbox">>
      [] gpu = "nvenc" -> <<"hevc_nvenc">>
      [] gpu = "qsv" -> <<"hevc_qsv">>
      [] gpu = "amf" -> <<"hevc_amf">>

C9_FirstWorkingCandidate ==
    LET n == Len(probes)
        passed(k) == probes[k].outcome = "exit0"
    IN  /\ n <= Len(C9_Candidates)
        /\ \A k \in 1..n : probes[k].encoder = C9_Candidates[k]
        /\ \A k \in 1..(n - 1) : ~passed(k)
        /\ pc = "start" => n = 0
        /\ pc = "probing" =>
            /\ n < Len(C9_Candidates)
            /\ \A k \in 1..n : ~passed(k)
            /\ gpu_encoder = NoEncoder
        /\ pc \notin {"start", "probing"} =>
            IF n > 0 /\ passed(n)
            THEN /\ gpu_encoder.encoder = C9_Candidates[n]
                 /\ gpu_encoder = encoder_configs[
                        CHOOSE g \in DOMAIN encoder_configs :
                            encoder_configs[g].encoder = C9_Candidates[n]]
            ELSE /\ n = Len(C9_Candidates)
                 /\ gpu_encoder = NoEncoder
        /\ pc = "error" => \E k \in 1..Len(spawned) : spawned[k].kind # "probe"

\* on Windows the automatic mode has resolved to the third candidate after a
\* test that could not be spawned and a test that exited with 1
C9_Witness ==
    /\ pc = "configured"
    /\ gpu = "auto"
    /\ system = "Windows"
    /\ probes = <<[encoder |-> "hevc_nvenc", outcome |-> "spawn_error"],
                  [encoder |-> "hevc_amf", outcome |-> "exit1"],
                  [encoder |-> "hevc_qsv", outcome |-> "exit0"]>>
    /\ gpu_encoder = Qsv

(***************************************************************************)
(* C10: the encoder is resolved before any other process of the run is     *)
(* spawned, and once it is resolved no step changes self.gpu_encoder or    *)
(* tests an encoder again: parsing, the chapters of a split and the        *)
(* extractions and the merge of a concat leave it as it was, and the       *)
(* command of a chapter names no encoder of the table but the resolved     *)
(* one, which it names whenever the video is encoded anew.                 *)
(***************************************************************************)
C10_ResolvedOnce ==
    /\ [][pc \notin {"start", "probing"} =>
            /\ gpu_encoder' = gpu_encoder
            /\ probes' = probes
            /\ Launched("probe")' = Launched("probe")
            /\ pc' \notin {"start", "probing"}]_vars
    /\ [](\A k \in 1..Len(spawned) :
            spawned[k].kind = "probe" => \A j \in 1..k : spawned[j].kind = "probe")
    /\ [](pc = "reading" =>
            LET resolved == IF probes # <<>> /\ probes[Len(probes)].outcome = "exit0"
                            THEN probes[Len(probes)].encoder
                            ELSE "None"
            IN  /\ gpu_encoder.encoder = resolved
                /\ \A g \in DOMAIN encoder_configs :
                    LET e == encoder_configs[g].encoder
                    IN  (\E a \in 1..Len(last_cmd) : last_cmd[a] = Word(e))
                        <=> (e = resolved /\ (accurate \/ video_codec # "copy")))

\* the second chapter of a split is transcoded with the encoder that was
\* resolved before the first, whose child failed
C10_Witness ==
    /\ pc = "reading"
    /\ i = 2
    /\ exits = <<1>>
    /\ gpu_encoder = Nvenc
    /\ \E a \in 1..Len(last_cmd) : last_cmd[a] = Word("hevc_nvenc")

(***************************************************************************)
(* Definitions the properties of a chapter command share.                  *)
(***************************************************************************)
\* the positions of an argument in a command
Positions(cmd, arg) == {k \in 1..Len(cmd) : cmd[k] = arg}

\* the arguments from -c:v up to -c:a
VideoArgs(cmd) ==
    LET from == CHOOSE k \in Positions(cmd, Word("-c:v")) : TRUE
        to == CHOOSE k \in Positions(cmd, Word("-c:a")) : TRUE
    IN  SubSeq(cmd, from, to - 1)

\* the command split_chapter would build for the chapter the loop is at
TwinCommand ==
    split_chapter(accurate, gpu_encoder, video_codec, audio_codec,
                  chapter_start(chapters[i]), chapter_duration(chapters[i]),
                  video_bitrate, i)

(***************************************************************************)
(* C11: the video arguments of a chapter command, the one launched and the *)
(* one split_chapter builds, follow the priority: with an encoder resolved *)
(* and (accurate or a codec other than copy), the encoder, its parameters  *)
(* and the bitrate; else with accurate and copy, libx265 at crf 23; else   *)
(* with copy, a stream copy; else the named codec and the bitrate.  With   *)
(* accurate and copy no command has "-c:v copy".                           *)
(***************************************************************************)
C11_Chosen(cmd) ==
    LET v == VideoArgs(cmd)
        hw == gpu_encoder # NoEncoder
        bitrate == <<Word("-b:v"), Kbps(video_bitrate)>>
    IN  /\ Cardinality(Positions(cmd, Word("-c:v"))) = 1
        /\ Cardinality(Positions(cmd, Word("-c:a"))) = 1
        /\ (hw /\ (accurate \/ video_codec # "copy")) =>
            v = <<Word("-c:v"), Word(gpu_encoder.encoder)>>
                \o [k \in 1..Len(gpu_encoder.params) |-> Word(gpu_encoder.params[k])]
                \o bitrate
        /\ (~hw /\ accurate /\ video_codec = "copy") =>
            v = <<Word("-c:v"), Word("libx265"), Word("-crf"), Word("23"),
                  Word("-preset"), Word("medium")>>
        /\ (~accurate /\ video_codec = "copy") =>
            v = <<Word("-c:v"), Word("copy")>>
        /\ (~hw /\ video_codec # "copy") =>
            v = <<Word("-c:v"), Word(video_codec)>> \o bitrate
        /\ (accurate /\ video_codec = "copy") =>
            \A k \in Positions(cmd, Word("-c:v")) : cmd[k + 1] # Word("copy")

C11_VideoArgsByPriority ==
    pc = "reading" => C11_Chosen(last_cmd) /\ C11_Chosen(TwinCommand)

\* an accurate run in copy mode with no encoder resolved transcodes a chapter
\* with libx265
C11_Witness ==
    /\ pc = "reading"
    /\ accurate
    /\ video_codec = "copy"
    /\ gpu_encoder = NoEncoder
    /\ VideoArgs(last_cmd)[2] = Word("libx265")

(***************************************************************************)
(* C12: a chapter command of split mode, the one launched and the one      *)
(* split_chapter builds, has one -ss argument, followed by the chapter's   *)
(* start, and one -i argument, followed by the input file; -ss comes after *)
(* -i when accurate is set and before it when it is not.                   *)
(***************************************************************************)
C12_Placed(cmd) ==
    LET ss == Positions(cmd, Word("-ss"))
        in == Positions(cmd, Word("-i"))
    IN  /\ Cardinality(ss) = 1
        /\ Cardinality(in) = 1
        /\ \A a \in ss, b \in in :
            /\ cmd[a + 1] = Num(chapter_start(chapters[i]))
            /\ cmd[b + 1] = Word("input")
            /\ IF accurate THEN a = b + 2 ELSE b = a + 2

C12_SeekPlacement ==
    pc = "reading" => C12_Placed(last_cmd) /\ C12_Placed(TwinCommand)

\* the second chapter of a fast run is launched with -ss 10 before -i
C12_Witness ==
    /\ pc = "reading"
    /\ ~accurate
    /\ i = 2
    /\ \E a \in 1..Len(last_cmd) :
        /\ last_cmd[a] = Word("-ss")
        /\ last_cmd[a + 1] = Num(Seconds(10))
        /\ last_cmd[a + 2] = Word("-i")

(***************************************************************************)
(* C13: no process is launched while a child is running: an encoder test,  *)
(* a query, the transcode of the next chapter, an extraction or the merge  *)
(* is launched only when the child launched before it has exited.          *)
(***************************************************************************)
C13_OneChildAtATime == [][spawned' # spawned => ~process.alive]_vars

\* the child of the second chapter runs after the child of the first exited
C13_Witness ==
    /\ pc = "reading"
    /\ i = 2
    /\ Len(exits) = 1
    /\ process.alive
    /\ Launched("transcode") = <<1, 2>>

(***************************************************************************)
(* C14: the read loop of a chapter ends only when the child has exited and *)
(* every line it wrote has been read; the chapter is then a success when   *)
(* the exit code is 0 and reported as failed otherwise; and once the child *)
(* has exited the loop reads what is left and ends.                        *)
(***************************************************************************)
C14_ReadLoopEnds ==
    /\ [][(pc = "reading" /\ pc' # "reading" /\ error' = error) =>
            /\ ~process.alive
            /\ process.stdout = <<>>
            /\ exits' = Append(exits, process.returncode)
            /\ (process.returncode = 0) <=> (console' = console)
            /\ (process.returncode # 0) <=>
                (console' = Append(console, Msg("chapter_failed", i, <<>>)))]_vars
    /\ [][(pc = "reading" /\ process'.stdout # process.stdout
           /\ Len(process'.stdout) <= Len(process.stdout)) =>
            /\ process'.stdout = Tail(process.stdout)
            /\ pc' = "reading"
            /\ exits' = exits]_vars
    /\ (pc = "reading" /\ ~process.alive) ~> (pc # "reading")

\* a child wrote two lines and exited with 1; both lines were read and the
\* chapter was reported as failed
C14_Witness ==
    /\ pc = "split_loop"
    /\ i = 2
    /\ process.written = 2
    /\ process.stdout = <<>>
    /\ process.returncode = 1
    /\ exits = <<1>>
    /\ console = <<Msg("chapter_failed", 1, <<>>)>>

(***************************************************************************)
(* C15: when concat_chapters has returned or raised, no temporary chapter  *)
(* file and no manifest is left, whether it succeeded, an extraction       *)
(* failed, the merge failed, a timestamp was refused or the new annotation *)
(* file could not be written; a successful run leaves the merged video and *)
(* the new annotation file.                                                *)
(***************************************************************************)
C15_TemporariesRemoved ==
    (concat /\ pc \in {"done", "error"}) =>
        /\ \A f \in files : f[1] \notin {"temp_chapter", "concat_list"}
        /\ \A k \in 1..Len(temp_files) : TempFile(temp_files[k]) \notin files
        /\ ConcatList \notin files
        /\ pc = "done" => files = {ConcatOutput, NewChapterFile}

\* the merge of two extracted chapters failed and nothing temporary is left
C15_Witness ==
    /\ concat
    /\ pc = "error"
    /\ error = "ConcatStageFailure"
    /\ temp_files = <<1, 2>>
    /\ Len(ffmpeg_results) = 3
    /\ ffmpeg_results[3] = [kind |-> "merge", idx |-> 0, ok |-> FALSE]
    /\ files = {}

(***************************************************************************)
(* C16: in concat mode the extractions and the merge are launched in       *)
(* order, a failed one is the last process of the run and ends it with     *)
(* ConcatStageFailure, and the new annotation file is written only when    *)
(* every extraction and then the merge have succeeded.                     *)
(***************************************************************************)
C16_StageFailureIsFatal ==
    LET stages == SelectSeq(spawned, LAMBDA p : p.kind \in {"extract", "merge"})
        n == Len(ffmpeg_results)
    IN  /\ Len(stages) = n
        /\ \A k \in 1..n :
            /\ stages[k].kind = ffmpeg_results[k].kind
            /\ stages[k].idx = ffmpeg_results[k].idx
            /\ ffmpeg_results[k].kind = "extract" => ffmpeg_results[k].idx = k
            /\ ffmpeg_results[k].kind = "merge" => k = Len(chapters) + 1
            /\ ~ffmpeg_results[k].ok =>
                /\ k = n
                /\ pc = "error"
                /\ error = "ConcatStageFailure"
                /\ new_chapter_file = <<>>
        /\ (new_chapter_file # <<>> \/ NewChapterFile \in files) =>
            /\ pc = "done"
            /\ n = Len(chapters) + 1
            /\ \A k \in 1..n : ffmpeg_results[k].ok
            /\ ffmpeg_results[n].kind = "merge"

\* the first of two extractions failed: no second extraction and no merge
C16_Witness ==
    /\ concat
    /\ pc = "error"
    /\ Len(chapters) = 2
    /\ ffmpeg_results = <<[kind |-> "extract", idx |-> 1, ok |-> FALSE]>>
    /\ Launched("extract") = <<1>>
    /\ Launched("merge") = <<>>
    /\ new_chapter_file = <<>>

(***************************************************************************)
(* C17: the annotation file a successful concat writes has one line for    *)
(* every entry that is not excluded, in file order, with the entry's       *)
(* title, which does not start with "--"; the time of a line is the sum,   *)
(* written with milliseconds, of the durations (end - start) of the kept   *)
(* entries before it, 0 for the first, and reads back as that sum.         *)
(***************************************************************************)
C17_End(E, k) ==
    IF k < Len(E) THEN E[k + 1].time ELSE seconds_to_time_str(video_duration, FALSE)

RECURSIVE C17_Offset(_, _)
C17_Offset(E, k) ==
    IF k <= 1 THEN 0
    ELSE C17_Offset(E, k - 1)
         + (IF E[k - 1].excluded THEN 0
            ELSE time_to_seconds(C17_End(E, k - 1)) - time_to_seconds(E[k - 1].time))

C18_RoundTrip ==
    pc = "round_trip" =>
        /\ error = "None"
        /\ parsed_seconds - seconds <= TicksPerSecond \div 1000
        /\ seconds - parsed_seconds <= TicksPerSecond \div 1000

(***************************************************************************)
(* C19, as stated: time_to_seconds raises for every text whose minutes     *)
(* field (the last but one of two or three fields cut at ":") or seconds   *)
(* field (the last) is a number of 60 or more, and for every text that     *)
(* has neither the strict form nor three numeric fields; for every other   *)
(* text it returns hours * 3600 + minutes * 60 + seconds, hours being 0    *)
(* when there are two fields.                                              *)
(***************************************************************************)
C19_Fields == split(strip(time_str), ":")

C19_FieldAtLeast60(k) ==
    /\ Len(C19_Fields) \in {2, 3}
    /\ k \in 1..Len(C19_Fields)
    /\ IsFloat(C19_Fields[k])
    /\ FloatTicks(C19_Fields[k]) >= 60 * TicksPerSecond

C19_OutOfRangeRejected ==
    pc = "parsed" =>
        LET n == Len(C19_Fields)
            numeric == \A k \in 1..n : IsFloat(C19_Fields[k])
        IN  /\ (C19_FieldAtLeast60(n - 1) \/ C19_FieldAtLeast60(n)) =>
                error = "InvalidTimestamp"
            /\ (~pattern_match(time_str) /\ ~(n = 3 /\ numeric)) =>
                error = "InvalidTimestamp"
            /\ error = "None" =>
                parsed_seconds =
                    (IF n = 3 THEN FloatTicks(C19_Fields[1]) ELSE 0) * 3600
                    + FloatTicks(C19_Fields[n - 1]) * 60
                    + FloatTicks(C19_Fields[n])

(***************************************************************************)
(* C20: for every annotation file and duration, the list                   *)
(* parse_chapter_file returns is the list _parse_all_chapters returns      *)
(* without the entries flagged excluded and without the flag, element for  *)
(* element and in the same order.                                          *)
(***************************************************************************)
C20_ResolversAgree ==
    pc = "parsed_all" =>
        LET kept == SelectSeq(all_chapters, LAMBDA c : ~c.excluded)
        IN  /\ Len(chapters) = Len(kept)
            /\ \A k \in 1..Len(kept) :
                chapters[k] = [start |-> kept[k].start, end |-> kept[k].end,
                               title |-> kept[k].title]

\* a kept entry before an excluded one: both resolvers end it at the
\* excluded entry's time
C20_Witness ==
    /\ pc = "parsed_all"
    /\ Len(all_chapters) = 2
    /\ ~all_chapters[1].excluded
    /\ all_chapters[2].excluded
    /\ Len(chapters) = 1
    /\ chapters[1].end = all_chapters[2].start
    /\ chapters[1].end # chapters[1].start

(***************************************************************************)
(* C21: split_video reads every start and every end of the resolved list   *)
(* before it launches the first chapter: when time_to_seconds refuses one  *)
(* of them the run ends with InvalidTimestamp, no transcode has been       *)
(* launched and no chapter has been attempted; a chapter is launched only  *)
(* when every timestamp of the list is accepted.                           *)
(***************************************************************************)
C21_Malformed ==
    \E k \in 1..Len(chapters) :
        \/ time_to_seconds_raises(chapters[k].start)
        \/ time_to_seconds_raises(chapters[k].end)

====
